---- MODULE Spec2Model ----
(***************************************************************************)
(* The localStorage-backed entity store of the food delivery frontend      *)
(* (src/food_delivery_frontend/src/pages/Home.jsx, lines 68-508).           *)
(*                                                                         *)
(* The whole store is one JSON document behind one localStorage key.       *)
(* Every public operation loads the document (seeding it when it is        *)
(* absent, unparseable or incomplete), applies its change to a copy and    *)
(* stores the copy; the getters load the document and return part of it.   *)
(*                                                                         *)
(* Spec is the store on a working localStorage.  SpecFail is the store on  *)
(* a localStorage whose getItem, setItem or removeItem start to throw.     *)
(*                                                                         *)
(* JavaScript values that the code passes through Number(), typeof or      *)
(* JSON.stringify are tagged records [t, n]:                               *)
(*   "num"   a finite number n      "nan"   NaN                            *)
(*   "str"   a string that parses   "text"  a string that does not parse   *)
(*           to the number n                                               *)
(*   "null"  null                   "undef" undefined / an absent field    *)
(* Money is counted in thousandths of a currency unit, so that 12.99 is    *)
(* 12990 and toFixed(2) has something to round.  Ids held by the store are *)
(* always numbers (seed literals or nextId results) and are plain          *)
(* integers; names and other free text are plain strings.                  *)
(***************************************************************************)
EXTENDS Integers, Sequences, FiniteSets, TLC

VARIABLES storage, last, steps, issued, throwing, tabs, view

vars == <<storage, last, steps, issued, throwing, tabs, view>>

\* Number of public store calls in one run.
MaxOps == 3

\* Number of public store calls in one run up to which calls are made on a
\* localStorage that has started to fail.
MaxFailOps == 2

---------------------------------------------------------------------------
\* JavaScript values

Num(n) == [t |-> "num", n |-> n]
Str(n) == [t |-> "str", n |-> n]
Text == [t |-> "text", n |-> 0]
NaN == [t |-> "nan", n |-> 0]
Null == [t |-> "null", n |-> 0]
Undef == [t |-> "undef", n |-> 0]

IsNum(v) == v.t = "num"

\* typeof v === 'number' (NaN is a number to typeof)
TypeofNumber(v) == v.t \in {"num", "nan"}

\* Number(v)
ToNumber(v) ==
  CASE v.t = "num" -> v
    [] v.t = "str" -> Num(v.n)
    [] v.t = "null" -> Num(0)
    [] OTHER -> NaN

\* Number(a) === Number(b): NaN equals nothing, itself included
NumEq(a, b) == IsNum(ToNumber(a)) /\ ToNumber(a) = ToNumber(b)

\* JSON.stringify followed by JSON.parse of one value: NaN becomes null;
\* a field holding undefined is dropped and reads back as undefined.
JsonValue(v) == IF v.t = "nan" THEN Null ELSE v

---------------------------------------------------------------------------
\* Values the store is called with

\* Order statuses the code names as allowed, and one it does not.
AllowedStatuses == {"placed", "preparing", "delivering", "completed", "cancelled"}

---------------------------------------------------------------------------
\* The persisted value under STORAGE_KEY

Absent == [kind |-> "absent"]
Corrupt == [kind |-> "corrupt"]
Stored(doc) == [kind |-> "doc", doc |-> doc]

\* A parseable document that lacks three of the four collections.
Partial == Stored([users |-> <<>>])

Collections == {"users", "restaurants", "menus", "orders"}

\* state && state.users && state.restaurants && state.menus && state.orders
\* (an array, even an empty one, is truthy)
HasAllCollections(doc) == Collections \subseteq DOMAIN doc

\* The localStorage methods; `throwing' holds the ones that throw when called
\* (access denied, quota exceeded).
StorageMethods == {"getItem", "setItem", "removeItem"}

\* loadState: <<>> stands for null (no value, or getItem or JSON.parse threw
\* and the catch block returned null)
loadState(s) ==
  IF "getItem" \notin throwing /\ s.kind = "doc" THEN <<s.doc>> ELSE <<>>

\* What JSON.stringify / JSON.parse make of each record
JsonRestaurant(r) == [r EXCEPT !.rating = JsonValue(@)]

JsonMenu(m) == [m EXCEPT !.restaurantId = JsonValue(@), !.price = JsonValue(@)]

JsonItem(it) == [it EXCEPT !.menuItemId = JsonValue(@), !.unitPrice = JsonValue(@)]

JsonOrder(o) ==
  [o EXCEPT !.userId = JsonValue(@),
            !.restaurantId = JsonValue(@),
            !.total = JsonValue(@),
            !.items = [i \in DOMAIN @ |-> JsonItem(@[i])]]

JsonDoc(state) ==
  [users |-> state.users,
   restaurants |-> [i \in DOMAIN state.restaurants |-> JsonRestaurant(state.restaurants[i])],
   menus |-> [i \in DOMAIN state.menus |-> JsonMenu(state.menus[i])],
   orders |-> [i \in DOMAIN state.orders |-> JsonOrder(state.orders[i])]]

\* A slip: the state is stored without JSON.stringify, as "[object Object]".
saveStateUnserialized(s, state) ==
  IF "setItem" \in throwing THEN s ELSE Corrupt

\* A slip: a throwing setItem leaves the key empty.
saveStateClearing(s, state) ==
  IF "setItem" \in throwing THEN Absent ELSE Stored(JsonDoc(state))

\* saveState: localStorage.setItem(STORAGE_KEY, JSON.stringify(state)) inside
\* try/catch; s is the value under the key before the call, which a throwing
\* setItem leaves in place.
saveState(s, state) ==
  IF "setItem" \in throwing THEN s ELSE Stored(JsonDoc(state))

\* Seed data
seedUsers ==
  << [id |-> 1, name |-> "Alice Johnson", email |-> "alice@example.com"],
     [id |-> 2, name |-> "Bob Smith", email |-> "bob@example.com"] >>

seedRestaurants ==
  << [id |-> 1, name |-> "Pasta Palace", cuisine |-> "Italian", rating |-> Num(4600)],
     [id |-> 2, name |-> "Sushi Central", cuisine |-> "Japanese", rating |-> Num(4800)] >>

seedMenus ==
  << [id |-> 1, restaurantId |-> Num(1), name |-> "Spaghetti Carbonara",
      price |-> Num(12990), description |-> "Creamy sauce, pancetta, pecorino."],
     [id |-> 2, restaurantId |-> Num(1), name |-> "Penne Arrabbiata",
      price |-> Num(10500), description |-> "Spicy tomato sauce with garlic and chili."],
     [id |-> 3, restaurantId |-> Num(2), name |-> "Salmon Nigiri (2 pcs)",
      price |-> Num(6000), description |-> "Fresh salmon over seasoned rice."],
     [id |-> 4, restaurantId |-> Num(2), name |-> "California Roll",
      price |-> Num(7500), description |-> "Crab, avocado, cucumber."] >>

\* createdAt is new Date().toISOString(); the number of calls made so far
\* stands for the clock.
seedOrders(now) ==
  << [id |-> 1, userId |-> Num(1), restaurantId |-> Num(1),
      items |-> << [menuItemId |-> Num(1), quantity |-> 1, unitPrice |-> Num(12990)] >>,
      status |-> "placed", total |-> Num(12990), createdAt |-> now] >>

seedState(now) ==
  [users |-> seedUsers, restaurants |-> seedRestaurants,
   menus |-> seedMenus, orders |-> seedOrders(now)]

\* A slip: a complete document is written back on every load.
ensureInitializedResaving(s, now) ==
  LET loaded == loadState(s) IN
  IF loaded # <<>> /\ HasAllCollections(loaded[1])
    THEN [state |-> loaded[1], storage |-> saveState(s, loaded[1]), writes |-> 1]
    ELSE [state |-> seedState(now), storage |-> saveState(s, seedState(now)), writes |-> 1]

\* A slip: the seed is handed out but not stored.
ensureInitializedWithoutSave(s, now) ==
  LET loaded == loadState(s) IN
  IF loaded # <<>> /\ HasAllCollections(loaded[1])
    THEN [state |-> loaded[1], storage |-> s, writes |-> 0]
    ELSE [state |-> seedState(now), storage |-> s, writes |-> 0]

\* ensureInitialized: the state it returns, what is persisted afterwards,
\* and the number of setItem calls it made (throwing ones included).
ensureInitialized(s, now) ==
  LET loaded == loadState(s) IN
  IF loaded # <<>> /\ HasAllCollections(loaded[1])
    THEN [state |-> loaded[1], storage |-> s, writes |-> 0]
    ELSE [state |-> seedState(now), storage |-> saveState(s, seedState(now)), writes |-> 1]

\* A slip: every access starts over from the seed.
getStateReseeding(s, now) == ensureInitialized(Absent, now)

getState(s, now) == ensureInitialized(s, now)

\* A different store: a state the mutator returned unchanged is not saved.
persistIfChanged(got, newState) ==
  IF newState = got.state
    THEN [storage |-> got.storage, writes |-> got.writes]
    ELSE [storage |-> saveState(got.storage, newState), writes |-> got.writes + 1]

\* The saveState(newState) call of setState: what is persisted after it and
\* the number of setItem calls made so far in the call.
persist(got, newState) ==
  [storage |-> saveState(got.storage, newState), writes |-> got.writes + 1]

\* nextId: Math.max(...ids) + 1, or 1 for an empty collection
MaxOf(S) == CHOOSE m \in S : \A x \in S : x <= m

\* A slip: one id is skipped.
nextIdSkipping(items) ==
  IF Len(items) = 0 THEN 1
  ELSE MaxOf({items[i].id : i \in DOMAIN items}) + 2

\* A slip: the id taken from the number of records.
nextIdByCount(items) == Len(items) + 1

nextId(items) ==
  IF Len(items) = 0 THEN 1
  ELSE MaxOf({items[i].id : i \in DOMAIN items}) + 1

\* items.findIndex(r => Number(r.id) === Number(id)); 0 stands for -1
findIndex(items, id) ==
  LET hits == {i \in DOMAIN items : NumEq(Num(items[i].id), id)}
  IN IF hits = {} THEN 0 ELSE CHOOSE i \in hits : \A j \in hits : i <= j

\* A slip: the patch is spread last, so its id wins.
mergePatchLast(record, patch) ==
  [f \in DOMAIN record \cup DOMAIN patch |->
     IF f \in DOMAIN patch THEN patch[f] ELSE record[f]]

\* { ...record, ...patch, id: record.id }
merge(record, patch) ==
  [f \in DOMAIN record \cup DOMAIN patch |->
     IF f = "id" THEN record.id
     ELSE IF f \in DOMAIN patch THEN patch[f]
     ELSE record[f]]

---------------------------------------------------------------------------
\* State
\*   storage  the value under STORAGE_KEY in localStorage
\*   last     the last public call: its name, arguments, return value, the
\*            storage value before it, the state its getState() returned,
\*            the number of setItem calls it made, the number of
\*            console.warn calls about the status argument, whether it
\*            ended by throwing, and the localStorage methods that threw
\*            when it called them
\*   steps    the number of public calls made so far (also the clock)
\*   issued   per collection, the ids handed out since the document was last
\*            seeded, in the order they were handed out (the seed's ids first)
\*   throwing the localStorage methods that throw when called
\*   tabs     per browser tab sharing the key, how far its setState call has
\*            got (idle, loaded, done), with what it loaded and what it
\*            stores, and when
\*   view     the hash-routed RestaurantList and the window it is in:
\*            whether it is mounted, the restaurants it lists, selectedId,
\*            window.location.hash, and whether a hashchange event waits
\*            to be delivered

\* The browser tabs that run the store on the same key.
Tabs == {1, 2}

\* A tab that is in no call of the store.
Idle == [pc |-> "idle"]

\* window.location.hash: '', '#/', '#/about', '#/restaurant/' and
\* '#/restaurant/<id>'.
NoHash == [kind |-> "empty", id |-> 0]
RootHash == [kind |-> "root", id |-> 0]
OtherHash == [kind |-> "other", id |-> 0]
PrefixHash == [kind |-> "prefix", id |-> 0]
DetailHash(id) == [kind |-> "detail", id |-> id]

\* The component before it is mounted: useState([]), useState(null).
Unmounted ==
  [mounted |-> FALSE, restaurants |-> <<>>, selectedId |-> Null,
   hash |-> NoHash, pending |-> FALSE]

NoCall ==
  [op |-> "none", id |-> Undef, input |-> <<>>, ret |-> <<>>, pre |-> Absent,
   loaded |-> <<>>, writes |-> 0, warns |-> 0, threw |-> FALSE, throwing |-> {}]

Init ==
  /\ storage \in {Absent, Corrupt, Partial}
  /\ last = NoCall
  /\ steps = 0
  /\ issued = [c \in Collections |-> <<>>]
  /\ throwing = {}
  /\ tabs = [t \in Tabs |-> Idle]
  /\ view = Unmounted

\* Whether ensureInitialized finds a document it keeps.
ValidStorage(s) == loadState(s) # <<>> /\ HasAllCollections(loadState(s)[1])

idsOf(items) == [i \in DOMAIN items |-> items[i].id]

seedIssued == [c \in Collections |-> idsOf(seedState(0)[c])]

\* The collection each create* call appends to.
createOps ==
  [createUser |-> "users", createRestaurant |-> "restaurants",
   createMenuItem |-> "menus", createOrder |-> "orders"]

\* Whether the run goes on with one more call.
MayCall == steps < MaxOps /\ (throwing # {} => steps < MaxFailOps)

\* The bookkeeping every call that returns shares: r is the result of
\* setState or getState.
Called(op, id, input, ret, r, warns) ==
  /\ MayCall
  /\ steps' = steps + 1
  /\ storage' = r.storage
  /\ throwing' = throwing
  /\ tabs' = tabs
  /\ view' = view
  /\ last' = [op |-> op, id |-> id, input |-> input, ret |-> ret, pre |-> storage,
              loaded |-> r.loaded, writes |-> r.writes, warns |-> warns,
              threw |-> FALSE, throwing |-> throwing]
  /\ LET base == IF op = "resetToSeed" \/ ~ValidStorage(storage) THEN seedIssued ELSE issued
     IN issued' = IF op \in DOMAIN createOps
                    THEN [base EXCEPT ![createOps[op]] = Append(@, ret[1].id)]
                    ELSE base

\* A call that ends with an exception thrown to its caller before it stored
\* or returned anything.
Threw(op) ==
  /\ MayCall
  /\ steps' = steps + 1
  /\ last' = [op |-> op, id |-> Undef, input |-> <<>>, ret |-> <<>>, pre |-> storage,
              loaded |-> <<>>, writes |-> 0, warns |-> 0, threw |-> TRUE,
              throwing |-> throwing]
  /\ UNCHANGED <<storage, issued, throwing, tabs, view>>

---------------------------------------------------------------------------
\* A slip: the document is not removed first, so a complete one is kept.
resetToSeedKeepingDocument ==
  LET got == ensureInitialized(storage, steps)
  IN Called("resetToSeed", Undef, <<>>, <<got.state>>,
            [storage |-> got.storage, loaded |-> got.state, writes |-> got.writes], 0)

\* resetToSeed: removeItem (outside any try block), then ensureInitialized

resetToSeed ==
  IF "removeItem" \in throwing
    THEN Threw("resetToSeed")
    ELSE LET got == ensureInitialized(Absent, steps)
         IN Called("resetToSeed", Undef, <<>>, <<got.state>>,
                   [storage |-> got.storage, loaded |-> got.state,
                    writes |-> got.writes], 0)

---------------------------------------------------------------------------
\* Users: the arguments tried, the mutators and the values returned

UserInputs == { [name |-> "Dev Tester", email |-> "dev@test.local"] }

UserPatches ==
  { [name |-> "Alice J."],
    [id |-> 7, email |-> "new@example.com"] }

UserUpdateIds == { Num(1), Num(9) }

UserDeleteIds == { Num(1), Num(3), Num(9) }

createdUser(state, user) ==
  [id |-> nextId(state.users), name |-> user.name, email |-> user.email]

\* A slip: the new user is put first.
createUserMutatorPrepending(state, user) ==
  [state EXCEPT !.users = <<createdUser(state, user)>> \o @]

createUserMutator(state, user) ==
  [state EXCEPT !.users = Append(@, createdUser(state, user))]

\* The record an update* call returns: <<>> stands for null.
updated(items, id, patch) ==
  LET idx == findIndex(items, id)
  IN IF idx = 0 THEN <<>> ELSE <<merge(items[idx], patch)>>

\* A slip: with no match the first record takes the patch.
patchedFirstWhenMissing(items, id, patch) ==
  LET idx == findIndex(items, id)
  IN IF idx # 0 THEN [items EXCEPT ![idx] = merge(items[idx], patch)]
     ELSE IF items = <<>> THEN items
     ELSE [items EXCEPT ![1] = merge(items[1], patch)]

\* The collection an update* mutator builds.
patched(items, id, patch) ==
  LET idx == findIndex(items, id)
  IN IF idx = 0 THEN items ELSE [items EXCEPT ![idx] = merge(items[idx], patch)]

updateUserMutator(state, id, patch) ==
  [state EXCEPT !.users = patched(@, id, patch)]

\* A slip: the record at the end goes instead of the one asked for.
withoutLast(items, id) ==
  IF findIndex(items, id) = 0 THEN items ELSE SubSeq(items, 1, Len(items) - 1)

\* The collection a delete* mutator builds.
\* items.filter(u => Number(u.id) !== Number(id))
without(items, id) == SelectSeq(items, LAMBDA u : ~NumEq(Num(u.id), id))

\* A slip: the user's orders go with the user.
deleteUserMutatorCascading(state, id) ==
  [state EXCEPT !.users = without(@, id),
                !.orders = SelectSeq(@, LAMBDA o : ~NumEq(o.userId, id))]

deleteUserMutator(state, id) == [state EXCEPT !.users = without(@, id)]

---------------------------------------------------------------------------
\* Restaurants: the arguments tried, the mutators and the values returned

RestaurantInputs == { [name |-> "Taco Town", cuisine |-> "Mexican", rating |-> Num(4200)] }

RestaurantPatches ==
  { [rating |-> Num(3900)],
    [id |-> 7, name |-> "Renamed"] }

RestaurantUpdateIds == { Num(1), Num(9) }

RestaurantDeleteIds == { Num(1), Str(2), Num(9) }

\* cuisine: restaurant.cuisine || '' (the inputs are strings, '' included);
\* rating: typeof restaurant.rating === 'number' ? restaurant.rating : 0
createdRestaurant(state, restaurant) ==
  [id |-> nextId(state.restaurants),
   name |-> restaurant.name,
   cuisine |-> restaurant.cuisine,
   rating |-> IF TypeofNumber(restaurant.rating) THEN restaurant.rating ELSE Num(0)]

createRestaurantMutator(state, restaurant) ==
  [state EXCEPT !.restaurants = Append(@, createdRestaurant(state, restaurant))]

updateRestaurantMutator(state, id, patch) ==
  [state EXCEPT !.restaurants = patched(@, id, patch)]

\* A slip: the menus are left alone.
menusKeptAll(menus, id) == menus

\* menus.filter(m => Number(m.restaurantId) !== Number(id))
menusKept(menus, id) == SelectSeq(menus, LAMBDA m : ~NumEq(m.restaurantId, id))

\* A slip: completed orders are cancelled too.
ordersCancelledAlsoCompleted(orders, id) ==
  [i \in DOMAIN orders |->
     IF NumEq(orders[i].restaurantId, id)
       THEN [orders[i] EXCEPT !.status = "cancelled"]
       ELSE orders[i]]

\* orders.map(o => Number(o.restaurantId) === Number(id) && o.status !== 'completed'
\*                   ? { ...o, status: 'cancelled' } : o)
ordersCancelled(orders, id) ==
  [i \in DOMAIN orders |->
     IF NumEq(orders[i].restaurantId, id) /\ orders[i].status # "completed"
       THEN [orders[i] EXCEPT !.status = "cancelled"]
       ELSE orders[i]]

deleteRestaurantMutator(state, id) ==
  [state EXCEPT !.restaurants = without(@, id),
                !.menus = menusKept(@, id),
                !.orders = ordersCancelled(@, id)]

---------------------------------------------------------------------------
\* Menus: the arguments tried, the mutators and the values returned

MenuInputs ==
  { [restaurantId |-> Str(2), name |-> "Miso Soup", price |-> Num(3250), description |-> ""],
    [restaurantId |-> Num(9), name |-> "Mystery Dish", price |-> Text, description |-> "?"] }

MenuPatches ==
  { [price |-> Num(9994)],
    [id |-> 7, restaurantId |-> Num(2), price |-> Text] }

MenuUpdateIds == { Num(1), Num(9) }

MenuDeleteIds == { Num(1), Num(9) }

\* restaurantId: Number(menuItem.restaurantId); price: Number(menuItem.price);
\* description: menuItem.description || '' (the inputs are strings)
createdMenuItem(state, menuItem) ==
  [id |-> nextId(state.menus),
   restaurantId |-> ToNumber(menuItem.restaurantId),
   name |-> menuItem.name,
   price |-> ToNumber(menuItem.price),
   description |-> menuItem.description]

createMenuItemMutator(state, menuItem) ==
  [state EXCEPT !.menus = Append(@, createdMenuItem(state, menuItem))]

\* A slip: a new price is carried into the line items that name the item.
updateMenuItemRepricing(state, id, patch) ==
  LET reprice(it) ==
        IF NumEq(it.menuItemId, id) THEN [it EXCEPT !.unitPrice = patch.price] ELSE it
      repriced(o) == [o EXCEPT !.items = [k \in DOMAIN o.items |-> reprice(o.items[k])]]
  IN [state EXCEPT
        !.menus = patched(@, id, patch),
        !.orders = IF "price" \in DOMAIN patch
                     THEN [i \in DOMAIN state.orders |-> repriced(state.orders[i])]
                     ELSE @]

updateMenuItemMutator(state, id, patch) ==
  [state EXCEPT !.menus = patched(@, id, patch)]

deleteMenuItemMutator(state, id) == [state EXCEPT !.menus = without(@, id)]

---------------------------------------------------------------------------
\* Orders: the arguments tried, the mutators and the values returned

OrderInputs ==
  { [userId |-> Num(1), restaurantId |-> Num(1),
     items |-> << [menuItemId |-> Num(1), quantity |-> Num(2), unitPrice |-> Undef] >>],
    [userId |-> Str(2), restaurantId |-> Num(2),
     items |-> << [menuItemId |-> Num(3), quantity |-> Undef, unitPrice |-> Num(1296)],
                  [menuItemId |-> Num(9), quantity |-> Num(0), unitPrice |-> Undef] >>],
    [userId |-> Num(1), restaurantId |-> Num(1),
     items |-> << [menuItemId |-> Num(2), quantity |-> Num(1), unitPrice |-> Num(-5000)] >>] }

StatusArgs == { "completed", "preparing", "bogus" }

OrderStatusIds == { Num(1), Num(9) }

OrderDeleteIds == { Num(1), Num(9) }

\* state.menus.find(m => Number(m.id) === Number(it.menuItemId)); <<>> stands
\* for undefined
findMenu(menus, menuItemId) ==
  LET idx == findIndex(menus, menuItemId)
  IN IF idx = 0 THEN <<>> ELSE <<menus[idx]>>

\* A slip: the menu is never looked up.
resolvedPriceNoLookup(menus, it) ==
  IF TypeofNumber(it.unitPrice) THEN it.unitPrice ELSE Num(0)

\* typeof it.unitPrice === 'number' ? it.unitPrice : (menu ? Number(menu.price) : 0)
resolvedPrice(menus, it) ==
  LET menu == findMenu(menus, it.menuItemId)
  IN IF TypeofNumber(it.unitPrice) THEN it.unitPrice
     ELSE IF menu # <<>> THEN ToNumber(menu[1].price)
     ELSE Num(0)

\* Math.max(1, Number(it.quantity) || 1): NaN and 0 are falsy
resolvedQuantity(it) ==
  LET q == ToNumber(it.quantity)
  IN IF ~IsNum(q) \/ q.n = 0 THEN 1
     ELSE IF q.n > 1 THEN q.n ELSE 1

itemWithPricing(menus, it) ==
  [menuItemId |-> ToNumber(it.menuItemId),
   quantity |-> resolvedQuantity(it),
   unitPrice |-> resolvedPrice(menus, it)]

itemsWithPricing(menus, items) ==
  [i \in DOMAIN items |-> itemWithPricing(menus, items[i])]

\* acc + it.quantity * it.unitPrice: NaN once, NaN for good
addLine(acc, it) ==
  IF IsNum(acc) /\ IsNum(it.unitPrice) THEN Num(acc.n + it.quantity * it.unitPrice.n)
  ELSE NaN

\* items.reduce((acc, it) => acc + it.quantity * it.unitPrice, 0)
RECURSIVE reduceTotal(_, _)
reduceTotal(acc, items) ==
  IF items = <<>> THEN acc
  ELSE reduceTotal(addLine(acc, Head(items)), Tail(items))

\* A slip: the total is stored as summed.
toFixed2Missing(v) == v

\* Number(total.toFixed(2)): amounts are in thousandths, so the last digit
\* is rounded away (half away from zero); NaN stays NaN
toFixed2(v) ==
  IF ~IsNum(v) THEN NaN
  ELSE IF v.n >= 0 THEN Num(((v.n + 5) \div 10) * 10)
  ELSE Num(0 - (((0 - v.n) + 5) \div 10) * 10)

createdOrder(state, order, now) ==
  LET items == itemsWithPricing(state.menus, order.items)
  IN [id |-> nextId(state.orders),
      userId |-> ToNumber(order.userId),
      restaurantId |-> ToNumber(order.restaurantId),
      items |-> items,
      status |-> "placed",
      total |-> toFixed2(reduceTotal(Num(0), items)),
      createdAt |-> now]

createOrderMutator(state, order, now) ==
  [state EXCEPT !.orders = Append(@, createdOrder(state, order, now))]

\* if (!allowed.has(status)) console.warn(...)
statusWarnings(status) == IF status \in AllowedStatuses THEN 0 ELSE 1

\* { ...state.orders[idx], status }
withStatus(order, status) == [order EXCEPT !.status = status]

\* A stricter store: an unknown status is not written.
updateOrderStatusRejecting(state, id, status) ==
  LET idx == findIndex(state.orders, id)
  IN IF idx = 0 \/ status \notin AllowedStatuses THEN state
     ELSE [state EXCEPT !.orders[idx] = withStatus(@, status)]

updateOrderStatusMutator(state, id, status) ==
  LET idx == findIndex(state.orders, id)
  IN IF idx = 0 THEN state
     ELSE [state EXCEPT !.orders[idx] = withStatus(@, status)]

deleteOrderMutator(state, id) == [state EXCEPT !.orders = without(@, id)]

---------------------------------------------------------------------------
\* setState

\* The closure a public function hands to setState, as the function's name
\* and the arguments the closure captured.
Mutator(op, id, input) == [op |-> op, id |-> id, input |-> input]

\* mutator({ ...state })
applyMutator(m, state, now) ==
  CASE m.op = "createUser" -> createUserMutator(state, m.input)
    [] m.op = "updateUser" -> updateUserMutator(state, m.id, m.input)
    [] m.op = "deleteUser" -> deleteUserMutator(state, m.id)
    [] m.op = "createRestaurant" -> createRestaurantMutator(state, m.input)
    [] m.op = "updateRestaurant" -> updateRestaurantMutator(state, m.id, m.input)
    [] m.op = "deleteRestaurant" -> deleteRestaurantMutator(state, m.id)
    [] m.op = "createMenuItem" -> createMenuItemMutator(state, m.input)
    [] m.op = "updateMenuItem" -> updateMenuItemMutator(state, m.id, m.input)
    [] m.op = "deleteMenuItem" -> deleteMenuItemMutator(state, m.id)
    [] m.op = "createOrder" -> createOrderMutator(state, m.input, now)
    [] m.op = "updateOrderStatus" -> updateOrderStatusMutator(state, m.id, m.input)
    [] m.op = "deleteOrder" -> deleteOrderMutator(state, m.id)

\* setState(mutator): getState, mutator({...state}), saveState(newState)
setState(m, s, now) ==
  LET got == getState(s, now)
      newState == applyMutator(m, got.state, now)
      saved == persist(got, newState)
  IN [loaded |-> got.state,
      newState |-> newState,
      storage |-> saved.storage,
      writes |-> saved.writes]

---------------------------------------------------------------------------
\* The public functions that change the document

createUser(user) ==
  LET r == setState(Mutator("createUser", Undef, user), storage, steps)
  IN Called("createUser", Undef, user, <<createdUser(r.loaded, user)>>, r, 0)

updateUser(id, patch) ==
  LET r == setState(Mutator("updateUser", id, patch), storage, steps)
  IN Called("updateUser", id, patch, updated(r.loaded.users, id, patch), r, 0)

deleteUser(id) ==
  LET r == setState(Mutator("deleteUser", id, <<>>), storage, steps)
  IN Called("deleteUser", id, <<>>,
            <<Len(r.newState.users) < Len(r.loaded.users)>>, r, 0)

createRestaurant(restaurant) ==
  LET r == setState(Mutator("createRestaurant", Undef, restaurant), storage, steps)
  IN Called("createRestaurant", Undef, restaurant,
            <<createdRestaurant(r.loaded, restaurant)>>, r, 0)

updateRestaurant(id, patch) ==
  LET r == setState(Mutator("updateRestaurant", id, patch), storage, steps)
  IN Called("updateRestaurant", id, patch, updated(r.loaded.restaurants, id, patch), r, 0)

deleteRestaurant(id) ==
  LET r == setState(Mutator("deleteRestaurant", id, <<>>), storage, steps)
  IN Called("deleteRestaurant", id, <<>>,
            <<Len(r.newState.restaurants) < Len(r.loaded.restaurants)>>, r, 0)

createMenuItem(menuItem) ==
  LET r == setState(Mutator("createMenuItem", Undef, menuItem), storage, steps)
  IN Called("createMenuItem", Undef, menuItem,
            <<createdMenuItem(r.loaded, menuItem)>>, r, 0)

updateMenuItem(id, patch) ==
  LET r == setState(Mutator("updateMenuItem", id, patch), storage, steps)
  IN Called("updateMenuItem", id, patch, updated(r.loaded.menus, id, patch), r, 0)

deleteMenuItem(id) ==
  LET r == setState(Mutator("deleteMenuItem", id, <<>>), storage, steps)
  IN Called("deleteMenuItem", id, <<>>,
            <<Len(r.newState.menus) < Len(r.loaded.menus)>>, r, 0)

createOrder(order) ==
  LET r == setState(Mutator("createOrder", Undef, order), storage, steps)
  IN Called("createOrder", Undef, order, <<createdOrder(r.loaded, order, steps)>>, r, 0)

updateOrderStatus(id, status) ==
  LET r == setState(Mutator("updateOrderStatus", id, status), storage, steps)
      idx == findIndex(r.loaded.orders, id)
  IN Called("updateOrderStatus", id, status,
            IF idx = 0 THEN <<>> ELSE <<withStatus(r.loaded.orders[idx], status)>>,
            r, statusWarnings(status))

deleteOrder(id) ==
  LET r == setState(Mutator("deleteOrder", id, <<>>), storage, steps)
  IN Called("deleteOrder", id, <<>>,
            <<Len(r.newState.orders) < Len(r.loaded.orders)>>, r, 0)

---------------------------------------------------------------------------
\* The getters: getState() and a copy, a find or a filter of one collection

\* Ids and foreign keys the getters are asked for: the number 1, a numeric
\* string, and an id nothing has.
LookupIds == {Num(1), Str(2), Num(9)}

\* items.find(r => Number(r.id) === Number(id)); <<>> stands for undefined
find(items, id) ==
  LET idx == findIndex(items, id)
  IN IF idx = 0 THEN <<>> ELSE <<items[idx]>>

\* menus.filter(m => Number(m.restaurantId) === Number(restaurantId))
menusOf(menus, restaurantId) ==
  SelectSeq(menus, LAMBDA m : NumEq(m.restaurantId, restaurantId))

\* orders.filter(o => Number(o.userId) === Number(userId))
ordersOf(orders, userId) ==
  SelectSeq(orders, LAMBDA o : NumEq(o.userId, userId))

\* The bookkeeping every getter shares: got is the result of getState.
Got(op, id, ret, got) ==
  Called(op, id, <<>>, ret,
         [storage |-> got.storage, loaded |-> got.state, writes |-> got.writes], 0)

getUsers ==
  LET got == getState(storage, steps)
  IN Got("getUsers", Undef, <<got.state.users>>, got)

getUserById(id) ==
  LET got == getState(storage, steps)
  IN Got("getUserById", id, find(got.state.users, id), got)

getRestaurants ==
  LET got == getState(storage, steps)
  IN Got("getRestaurants", Undef, <<got.state.restaurants>>, got)

getRestaurantById(id) ==
  LET got == getState(storage, steps)
  IN Got("getRestaurantById", id, find(got.state.restaurants, id), got)

getMenus ==
  LET got == getState(storage, steps)
  IN Got("getMenus", Undef, <<got.state.menus>>, got)

getMenusByRestaurant(restaurantId) ==
  LET got == getState(storage, steps)
  IN Got("getMenusByRestaurant", restaurantId,
         <<menusOf(got.state.menus, restaurantId)>>, got)

getMenuItemById(id) ==
  LET got == getState(storage, steps)
  IN Got("getMenuItemById", id, find(got.state.menus, id), got)

getOrders ==
  LET got == getState(storage, steps)
  IN Got("getOrders", Undef, <<got.state.orders>>, got)

getOrdersByUser(userId) ==
  LET got == getState(storage, steps)
  IN Got("getOrdersByUser", userId, <<ordersOf(got.state.orders, userId)>>, got)

getOrderById(id) ==
  LET got == getState(storage, steps)
  IN Got("getOrderById", id, find(got.state.orders, id), got)

getAppState ==
  LET got == getState(storage, steps)
  IN Got("getAppState", Undef, <<got.state>>, got)

\* One call of any getter.
Getter ==
  \/ getUsers
  \/ getRestaurants
  \/ getMenus
  \/ getOrders
  \/ getAppState
  \/ \E id \in LookupIds : getUserById(id)
  \/ \E id \in LookupIds : getRestaurantById(id)
  \/ \E id \in LookupIds : getMenuItemById(id)
  \/ \E id \in LookupIds : getOrderById(id)
  \/ \E restaurantId \in LookupIds : getMenusByRestaurant(restaurantId)
  \/ \E userId \in LookupIds : getOrdersByUser(userId)

\* One call of any mutator.
Mutation ==
  \/ resetToSeed
  \/ \E user \in UserInputs : createUser(user)
  \/ \E id \in UserUpdateIds, patch \in UserPatches : updateUser(id, patch)
  \/ \E id \in UserDeleteIds : deleteUser(id)
  \/ \E restaurant \in RestaurantInputs : createRestaurant(restaurant)
  \/ \E id \in RestaurantUpdateIds, patch \in RestaurantPatches : updateRestaurant(id, patch)
  \/ \E id \in RestaurantDeleteIds : deleteRestaurant(id)
  \/ \E menuItem \in MenuInputs : createMenuItem(menuItem)
  \/ \E id \in MenuUpdateIds, patch \in MenuPatches : updateMenuItem(id, patch)
  \/ \E id \in MenuDeleteIds : deleteMenuItem(id)
  \/ \E order \in OrderInputs : createOrder(order)
  \/ \E id \in OrderStatusIds, status \in StatusArgs : updateOrderStatus(id, status)
  \/ \E id \in OrderDeleteIds : deleteOrder(id)

Next == Mutation \/ Getter

Spec == Init /\ [][Next]_vars

---------------------------------------------------------------------------
\* The store on a localStorage that starts to fail

\* The ways localStorage fails: reads throw, writes throw (quota exceeded),
\* every access throws (storage denied).
FailureModes == { {"getItem"}, {"setItem"}, StorageMethods }

\* The environment: from now on the methods named throw.
storageBreaks(methods) ==
  /\ steps < MaxFailOps
  /\ throwing = {}
  /\ throwing' = methods
  /\ UNCHANGED <<storage, last, steps, issued, tabs, view>>

NextFail ==
  \/ Next
  \/ \E methods \in FailureModes : storageBreaks(methods)

SpecFail == Init /\ [][NextFail]_vars

---------------------------------------------------------------------------
\* Two tabs on one key.  Within a tab setState runs to completion, but its
\* getItem and its setItem are two accesses to the shared storage, and the
\* other tab's accesses may fall between them.

\* The mutators the tabs run.
TabMutators ==
  {Mutator("createUser", Undef, user) : user \in UserInputs}
    \cup {Mutator("createRestaurant", Undef, restaurant) : restaurant \in RestaurantInputs}
    \cup {Mutator("deleteRestaurant", Num(1), <<>>),
          Mutator("updateOrderStatus", Num(1), "completed")}

\* A different store: a tab stores only if the value under the key is still
\* the one it loaded.
tabStoresIfUnchanged(t) ==
  /\ tabs[t].pc = "loaded"
  /\ storage' = IF storage = tabs[t].found
                  THEN saveState(storage, tabs[t].newState)
                  ELSE storage
  /\ tabs' = [tabs EXCEPT ![t] = [@ EXCEPT !.pc = "done", !.storedAt = steps]]
  /\ steps' = steps + 1
  /\ UNCHANGED <<last, issued, throwing, view>>

\* setState in tab t, first half: getState() (seeding when there is no
\* document) and the mutator applied to a copy.
tabLoads(t, m) ==
  /\ tabs[t].pc = "idle"
  /\ LET got == getState(storage, steps)
     IN /\ storage' = got.storage
        /\ tabs' = [tabs EXCEPT ![t] =
                      [pc |-> "loaded", m |-> m, found |-> got.storage,
                       loaded |-> got.state,
                       newState |-> applyMutator(m, got.state, steps),
                       loadedAt |-> steps, storedAt |-> 0]]
  /\ steps' = steps + 1
  /\ UNCHANGED <<last, issued, throwing, view>>

\* setState in tab t, second half: saveState(newState).
tabStores(t) ==
  /\ tabs[t].pc = "loaded"
  /\ storage' = saveState(storage, tabs[t].newState)
  /\ tabs' = [tabs EXCEPT ![t] = [@ EXCEPT !.pc = "done", !.storedAt = steps]]
  /\ steps' = steps + 1
  /\ UNCHANGED <<last, issued, throwing, view>>

NextTabs ==
  \/ \E t \in Tabs, m \in TabMutators : tabLoads(t, m)
  \/ \E t \in Tabs : tabStores(t)

SpecTabs == Init /\ [][NextTabs]_vars

---------------------------------------------------------------------------
\* The hash-routed RestaurantList.  Events are handled one at a time; an
\* assignment to window.location.hash that changes it queues a hashchange
\* event, which is delivered later.

\* The hashes the browser is sent to by back/forward or by editing the URL.
Hashes == {NoHash, RootHash, OtherHash, PrefixHash,
           DetailHash(1), DetailHash(2), DetailHash(7)}

\* window.location.hash.match(/#\/restaurant\/(\d+)/): the digits captured,
\* if any.
matchHash(hash) == IF hash.kind = "detail" THEN <<Str(hash.id)>> ELSE <<>>

\* `#/restaurant/${id}` for the id of a listed restaurant
detailHashOf(id) == DetailHash(id)

\* window.location.hash.startsWith('#/restaurant/')
startsWithRestaurant(hash) == hash.kind \in {"prefix", "detail"}

\* applyHash: selectedId becomes Number(m[1]) when the hash matches, and is
\* left as it is when it does not.
applyHash(selectedId, hash) ==
  IF matchHash(hash) # <<>> THEN ToNumber(matchHash(hash)[1]) ELSE selectedId

\* window.location.hash = hash
assignHash(v, hash) ==
  [v EXCEPT !.hash = hash, !.pending = v.pending \/ hash # v.hash]

\* The mount effect: resetToSeed(), setRestaurants(getRestaurants()),
\* applyHash(), addEventListener('hashchange', applyHash).
mountRestaurantList ==
  /\ ~view.mounted
  /\ IF "removeItem" \in throwing
       THEN Threw("mountRestaurantList")
       ELSE LET reset == ensureInitialized(Absent, steps)
                got == getState(reset.storage, steps)
            IN /\ MayCall
               /\ steps' = steps + 1
               /\ storage' = got.storage
               /\ issued' = seedIssued
               /\ last' = [op |-> "mountRestaurantList", id |-> Undef,
                           input |-> <<>>, ret |-> <<got.state.restaurants>>,
                           pre |-> storage, loaded |-> got.state,
                           writes |-> reset.writes + got.writes, warns |-> 0,
                           threw |-> FALSE, throwing |-> throwing]
               /\ view' = [view EXCEPT !.mounted = TRUE,
                                       !.restaurants = got.state.restaurants,
                                       !.selectedId = applyHash(view.selectedId, view.hash)]
               /\ UNCHANGED <<throwing, tabs>>

\* A click, Enter or Space on the card of restaurant id: goToDetail(id).
goToDetail(id) ==
  /\ view.mounted
  /\ view.selectedId = Null
  /\ \E i \in DOMAIN view.restaurants : view.restaurants[i].id = id
  /\ view' = assignHash([view EXCEPT !.selectedId = Num(id)], detailHashOf(id))
  /\ UNCHANGED <<storage, last, steps, issued, throwing, tabs>>

\* The Back button of the detail view: goBackToList().
goBackToList ==
  /\ view.mounted
  /\ view.selectedId # Null
  /\ view' = assignHash([view EXCEPT !.selectedId = Null],
                        IF startsWithRestaurant(view.hash) THEN RootHash ELSE NoHash)
  /\ UNCHANGED <<storage, last, steps, issued, throwing, tabs>>

\* The browser's back or forward button, or an edit of the URL: the hash
\* becomes another one.  Nothing listens before the component is mounted.
navigate(hash) ==
  /\ hash # view.hash
  /\ view' = [view EXCEPT !.hash = hash, !.pending = view.mounted]
  /\ UNCHANGED <<storage, last, steps, issued, throwing, tabs>>

\* The hashchange event is delivered: applyHash().
hashchange ==
  /\ view.mounted
  /\ view.pending
  /\ view' = [view EXCEPT !.pending = FALSE,
                          !.selectedId = applyHash(view.selectedId, view.hash)]
  /\ UNCHANGED <<storage, last, steps, issued, throwing, tabs>>

\* The store calls made around the component, and the events of the
\* component.
NextRoute ==
  \/ \E user \in UserInputs : createUser(user)
  \/ \E restaurant \in RestaurantInputs : createRestaurant(restaurant)
  \/ mountRestaurantList
  \/ \E id \in {1, 2, 3} : goToDetail(id)
  \/ goBackToList
  \/ \E hash \in Hashes : navigate(hash)
  \/ hashchange

SpecRoute == Init /\ [][NextRoute]_vars

---------------------------------------------------------------------------
\* Shorthands for the properties

\* The persisted document (every public call leaves one behind).
HasDoc == storage.kind = "doc" /\ HasAllCollections(storage.doc)

Doc == storage.doc

\* The document the last call worked on, as its getState() returned it.
Before == last.loaded

Returned == last.ret[1]

\* The number an id argument stands for (0 when it stands for none; no record
\* has id 0).
ArgId == IF IsNum(ToNumber(last.id)) THEN ToNumber(last.id).n ELSE 0

HasId(items, n) == \E i \in DOMAIN items : items[i].id = n

StrictlyIncreasing(ids) == \A i, j \in DOMAIN ids : i < j => ids[i] < ids[j]

NoDuplicateIds(items) ==
  \A i, j \in DOMAIN items : items[i].id = items[j].id => i = j

---------------------------------------------------------------------------
\* C1: in each collection, every id a create* call hands out is strictly
\* greater than every id handed out in that collection before it (the seed's
\* ids included), also after the record that held the highest id was deleted;
\* so no id is ever handed out twice between two seedings.
C1_IdsNeverReused == \A c \in Collections : StrictlyIncreasing(issued[c])

\* C2: no two records of one collection of the persisted document share an id.
C2_UniqueIds == HasDoc => \A c \in Collections : NoDuplicateIds(Doc[c])

\* C2 witness: a create* call that followed a deletion in the same collection
\* (the collection holds fewer records than ids were handed out).
C2_Witness ==
  /\ HasDoc
  /\ last.op = "createUser"
  /\ Len(Doc.users) < Len(issued.users)

---------------------------------------------------------------------------
\* deleteRestaurant

\* A stored reference (restaurantId, userId, menuItemId) that names record n.
RefersTo(ref, n) == ToNumber(ref) = Num(n)

DeletedExistingRestaurant ==
  /\ HasDoc
  /\ last.op = "deleteRestaurant"
  /\ HasId(Before.restaurants, ArgId)

\* C3: deleteRestaurant(R) for an existing R returns true; afterwards no
\* restaurant has id R and no menu item has restaurantId R, and the other
\* restaurants and the menu items of other restaurants are all still there,
\* unchanged and in the same order.
C3_DeleteRestaurantCascade ==
  DeletedExistingRestaurant =>
    /\ last.ret = <<TRUE>>
    /\ ~HasId(Doc.restaurants, ArgId)
    /\ \A i \in DOMAIN Doc.menus : ~RefersTo(Doc.menus[i].restaurantId, ArgId)
    /\ Doc.restaurants = SelectSeq(Before.restaurants, LAMBDA r : r.id # ArgId)
    /\ Doc.menus = SelectSeq(Before.menus, LAMBDA m : ~RefersTo(m.restaurantId, ArgId))

\* C3 witness: a restaurant with menu items was deleted while another
\* restaurant and its menu items stayed.
C3_Witness ==
  /\ DeletedExistingRestaurant
  /\ \E i \in DOMAIN Before.menus : RefersTo(Before.menus[i].restaurantId, ArgId)
  /\ Len(Doc.menus) > 0
  /\ Len(Doc.restaurants) > 0

SameButStatus(o1, o2) == [o1 EXCEPT !.status = ""] = [o2 EXCEPT !.status = ""]

\* C4: deleteRestaurant(R) removes no order and moves none; an order of R
\* that was not completed is cancelled afterwards, every other order keeps
\* its status; nothing else of any order changes.
C4_DeleteRestaurantOrders ==
  (HasDoc /\ last.op = "deleteRestaurant") =>
    /\ Len(Doc.orders) = Len(Before.orders)
    /\ \A i \in DOMAIN Before.orders :
         LET old == Before.orders[i]
             new == Doc.orders[i]
         IN /\ new.id = old.id
            /\ SameButStatus(new, old)
            /\ new.status =
                 IF RefersTo(old.restaurantId, ArgId) /\ old.status # "completed"
                   THEN "cancelled" ELSE old.status

\* C4 witness: the deleted restaurant had a completed order and an order
\* that was not completed.
C4_Witness ==
  /\ HasDoc
  /\ last.op = "deleteRestaurant"
  /\ \E i, j \in DOMAIN Before.orders :
       /\ RefersTo(Before.orders[i].restaurantId, ArgId)
       /\ RefersTo(Before.orders[j].restaurantId, ArgId)
       /\ Before.orders[i].status = "completed"
       /\ Before.orders[j].status = "placed"
       /\ Doc.orders[j].status = "cancelled"

---------------------------------------------------------------------------
\* updateOrderStatus

\* C5: every order of the persisted document has one of the five statuses;
\* updateOrderStatus with any other status does not persist it.
C5_StatusAlwaysAllowed ==
  HasDoc => \A i \in DOMAIN Doc.orders : Doc.orders[i].status \in AllowedStatuses

\* The position of the record with id n (the ids of a collection are distinct).
IndexOf(items, n) == CHOOSE i \in DOMAIN items : items[i].id = n

\* C6: updateOrderStatus(id, s) with s outside the five statuses and id the
\* id of an order warns once, persists the order with status s and nothing
\* else of it changed, and returns that order.
C6_InvalidStatusProceeds ==
  (/\ HasDoc
   /\ last.op = "updateOrderStatus"
   /\ last.input \notin AllowedStatuses
   /\ HasId(Before.orders, ArgId)) =>
    LET i == IndexOf(Before.orders, ArgId) IN
    /\ last.warns = 1
    /\ last.writes >= 1
    /\ Len(Doc.orders) = Len(Before.orders)
    /\ Doc.orders[i].id = ArgId
    /\ Doc.orders[i].status = last.input
    /\ SameButStatus(Doc.orders[i], Before.orders[i])
    /\ last.ret = <<Doc.orders[i]>>

\* C6 witness: an unknown status was written to an existing order.
C6_Witness ==
  /\ HasDoc
  /\ last.op = "updateOrderStatus"
  /\ last.input = "bogus"
  /\ HasId(Before.orders, ArgId)
  /\ \E i \in DOMAIN Doc.orders : Doc.orders[i].status = "bogus"

---------------------------------------------------------------------------
\* update*

\* The collection each update call works on.
updateOps ==
  [updateUser |-> "users", updateRestaurant |-> "restaurants",
   updateMenuItem |-> "menus", updateOrderStatus |-> "orders"]

UpdateMissed ==
  /\ HasDoc
  /\ last.op \in DOMAIN updateOps
  /\ ~HasId(Before[updateOps[last.op]], ArgId)

\* C7 as claimed: an update call whose id matches no record, made on a valid
\* persisted document, returns null, leaves all four collections as they
\* were and makes no storage write.
C7_NotFoundNoWrite ==
  (UpdateMissed /\ ValidStorage(last.pre)) =>
    /\ last.ret = <<>>
    /\ Doc = Before
    /\ last.writes = 0

\* C7 as amended: an update call whose id matches no record returns null and
\* leaves all four collections as its getState() loaded them, and it still
\* writes: setState saves the unchanged document back, one setItem call (two
\* when the document had to be seeded first).
C7_NotFoundUnchangedButWritten ==
  UpdateMissed =>
    /\ last.ret = <<>>
    /\ Doc = Before
    /\ storage = IF ValidStorage(last.pre) THEN last.pre ELSE Stored(seedState(steps - 1))
    /\ last.writes = IF ValidStorage(last.pre) THEN 1 ELSE 2

\* C7 witness: an update call missed on a document that earlier calls had
\* changed.
C7_Witness ==
  /\ UpdateMissed
  /\ ValidStorage(last.pre)
  /\ last.op = "updateMenuItem"
  /\ Len(Doc.users) > 2

UpdatedExisting ==
  /\ HasDoc
  /\ last.op \in {"updateUser", "updateRestaurant", "updateMenuItem"}
  /\ HasId(Before[updateOps[last.op]], ArgId)

\* C8: update<Entity>(id, patch) on an existing record sets exactly the
\* patch's fields (other than id) to the patch's values, keeps the id and
\* every other field, keeps the record's position, leaves the other records
\* and the other collections alone, and returns the record as now stored.
C8_MergePatch ==
  UpdatedExisting =>
    LET c == updateOps[last.op]
        i == IndexOf(Before[c], ArgId)
        old == Before[c][i]
        new == Doc[c][i]
        patch == last.input
    IN /\ Len(Doc[c]) = Len(Before[c])
       /\ new.id = old.id
       /\ DOMAIN new = DOMAIN old \cup DOMAIN patch
       /\ \A f \in DOMAIN patch \ {"id"} : new[f] = patch[f]
       /\ \A f \in DOMAIN old \ DOMAIN patch : new[f] = old[f]
       /\ \A j \in DOMAIN Before[c] : j # i => Doc[c][j] = Before[c][j]
       /\ \A d \in Collections \ {c} : Doc[d] = Before[d]
       /\ last.ret = <<new>>

\* C8 witness: a patch that carries an id and changes a field was applied.
C8_Witness ==
  /\ UpdatedExisting
  /\ "id" \in DOMAIN last.input
  /\ last.input.id # ArgId
  /\ Doc # Before

---------------------------------------------------------------------------
\* Order totals

\* The sum over line items of quantity * unitPrice, in thousandths; only
\* asked of items whose unit prices are numbers.
RECURSIVE LineSum(_)
LineSum(items) ==
  IF items = <<>> THEN 0
  ELSE Head(items).quantity * Head(items).unitPrice.n + LineSum(Tail(items))

Distance(a, b) == IF a >= b THEN a - b ELSE b - a

PricedInNumbers(o) == \A k \in DOMAIN o.items : IsNum(o.items[k].unitPrice)

\* total is the line sum rounded to two decimals: a whole number of
\* hundredths, at most half a hundredth away from the sum.  Where a unit
\* price is not a number (persisted as null) the total is no number either.
TotalMatches(o) ==
  IF PricedInNumbers(o)
    THEN /\ IsNum(o.total)
         /\ o.total.n % 10 = 0
         /\ Distance(o.total.n, LineSum(o.items)) <= 5
    ELSE o.total = Null

C10_OrdersKeepTheirContent ==
  (HasDoc /\ last.op \notin {"none", "resetToSeed"}) =>
    IF last.op = "deleteOrder"
      THEN \A i \in DOMAIN Doc.orders :
             \E j \in DOMAIN Before.orders : Doc.orders[i] = Before.orders[j]
      ELSE /\ Len(Doc.orders) >= Len(Before.orders)
           /\ \A i \in DOMAIN Before.orders :
                /\ SameButStatus(Doc.orders[i], Before.orders[i])
                /\ last.op \notin {"updateOrderStatus", "deleteRestaurant"}
                     => Doc.orders[i] = Before.orders[i]

\* C10 witness: the price of a menu item was changed after createOrder had
\* stored an order naming it, and the order still carries the old price.
C10_Witness ==
  /\ HasDoc
  /\ last.op = "updateMenuItem"
  /\ last.ret # <<>>
  /\ "price" \in DOMAIN last.input
  /\ \E i \in DOMAIN Doc.orders :
       /\ i >= 2
       /\ \E k \in DOMAIN Doc.orders[i].items :
            /\ RefersTo(Doc.orders[i].items[k].menuItemId, ArgId)
            /\ Doc.orders[i].items[k].unitPrice # ToNumber(Returned.price)

---------------------------------------------------------------------------
\* createOrder

CreatedOrder == HasDoc /\ last.op = "createOrder"

\* The order the last createOrder call left at the end of orders.
Made == Doc.orders[Len(Doc.orders)]

\* The unit price the order is to carry for input item it: the one supplied,
\* else the price the menu item has when the call is made, else 0.  (Said for
\* prices that are numbers.)
ExpectedUnitPrice(it, price) ==
  IF it.unitPrice # Undef THEN price = it.unitPrice
  ELSE IF ~IsNum(it.menuItemId) \/ ~HasId(Before.menus, it.menuItemId.n) THEN price = Num(0)
  ELSE LET menu == Before.menus[IndexOf(Before.menus, it.menuItemId.n)]
       IN IsNum(menu.price) => price = menu.price

ExpectedQuantity(it, quantity) ==
  IF IsNum(it.quantity) /\ it.quantity.n >= 1
    THEN quantity = it.quantity.n
    ELSE quantity = 1

---------------------------------------------------------------------------
\* Seeding on demand

getterOps ==
  {"getUsers", "getUserById", "getRestaurants", "getRestaurantById", "getMenus",
   "getMenusByRestaurant", "getMenuItemById", "getOrders", "getOrdersByUser",
   "getOrderById", "getAppState"}

\* The clock reading the last call saw.
CalledAt == steps - 1

\* The last call was a getter or mutator that found no usable document: the
\* value under the key was absent, unparseable or incomplete, or getItem
\* threw.
FoundNoDocument ==
  /\ last.op \notin {"none", "resetToSeed"}
  /\ ~last.threw
  /\ \/ last.pre.kind # "doc"
     \/ ~HasAllCollections(last.pre.doc)
     \/ "getItem" \in last.throwing

\* The last call returned null or false for an id it did not find.
MissedId ==
  \/ last.op \in {"updateUser", "updateRestaurant", "updateMenuItem", "updateOrderStatus"}
     /\ last.ret = <<>>
  \/ last.op \in {"deleteUser", "deleteRestaurant", "deleteMenuItem", "deleteOrder"}
     /\ last.ret = <<FALSE>>

\* C12: a getter or mutator that finds the value under the key absent,
\* unparseable, incomplete or unreadable works on the seed content, as a fresh
\* resetToSeed() would return it, and (setItem working) first stores the seed
\* in place of whatever was there: after a getter, or a mutator that missed
\* its id, the persisted document is the seed; a mutator stores its result on
\* the seed with a second write.
C12_SeedsWhenNoDocument ==
  FoundNoDocument =>
    /\ last.loaded = seedState(CalledAt)
    /\ "setItem" \notin last.throwing =>
         /\ HasDoc
         /\ last.writes = IF last.op \in getterOps THEN 1 ELSE 2
         /\ last.op \in getterOps \/ MissedId => storage = Stored(seedState(CalledAt))

\* C12 witness: getUsers on a complete document holding a third user, with
\* getItem throwing, returned the two seed users and left the seed behind.
C12_Witness ==
  /\ last.op = "getUsers"
  /\ last.throwing = {"getItem"}
  /\ last.pre.kind = "doc"
  /\ HasAllCollections(last.pre.doc)
  /\ Len(last.pre.doc.users) = 3
  /\ last.ret = <<seedUsers>>
  /\ storage = Stored(seedState(CalledAt))

---------------------------------------------------------------------------
\* resetToSeed

\* A document with the createdAt of its orders blanked.
WithoutCreatedAt(doc) ==
  [doc EXCEPT !.orders = [i \in DOMAIN @ |-> [@[i] EXCEPT !.createdAt = 0]]]

\* C13: resetToSeed(), whatever the document was, leaves the seed persisted
\* and returns it: 2 users, 2 restaurants, 4 menu items, 2 per restaurant, and
\* 1 order with status placed of user 1 at restaurant 1; createdAt aside the
\* content is the same on every call, so also on two calls in a row.
C13_ResetToSeed ==
  last.op = "resetToSeed" =>
    /\ HasDoc
    /\ last.ret = <<Doc>>
    /\ Len(Doc.users) = 2
    /\ Len(Doc.restaurants) = 2
    /\ Len(Doc.menus) = 4
    /\ \A r \in DOMAIN Doc.restaurants :
         Cardinality({m \in DOMAIN Doc.menus :
                        Doc.menus[m].restaurantId = Num(Doc.restaurants[r].id)}) = 2
    /\ Len(Doc.orders) = 1
    /\ Doc.orders[1].status = "placed"
    /\ Doc.orders[1].userId = Num(1)
    /\ Doc.orders[1].restaurantId = Num(1)
    /\ HasId(Doc.users, 1)
    /\ HasId(Doc.restaurants, 1)
    /\ WithoutCreatedAt(Doc) = WithoutCreatedAt(seedState(0))

\* C13 witness: resetToSeed() called right after a resetToSeed(); the two
\* persisted seeds differ in createdAt only.
C13_Witness ==
  /\ last.op = "resetToSeed"
  /\ steps = 3
  /\ last.pre.kind = "doc"
  /\ HasAllCollections(last.pre.doc)
  /\ last.pre.doc.orders[1].createdAt = 1
  /\ last.pre.doc # Doc
  /\ WithoutCreatedAt(last.pre.doc) = WithoutCreatedAt(Doc)

---------------------------------------------------------------------------
\* Storage failures

\* C14: no public call of the store, resetToSeed included, ends by throwing
\* to its caller because getItem, setItem or removeItem threw.
C14_NoCallThrows == ~last.threw

\* The collection each delete call works on.
deleteOps ==
  [deleteUser |-> "users", deleteRestaurant |-> "restaurants",
   deleteMenuItem |-> "menus", deleteOrder |-> "orders"]

\* n is the id after the highest id of items, 1 when there is none.
IsNextId(items, n) ==
  /\ \A i \in DOMAIN items : items[i].id < n
  /\ n = 1 \/ HasId(items, n - 1)

\* What each mutator returns when all goes well, said from the document it
\* found: create* the new record under the next id, update* the merged
\* record or null, updateOrderStatus the order under its new status or null,
\* delete* whether the id was there.
ReturnsAsOnSuccess ==
  CASE last.op \in DOMAIN createOps ->
         /\ Len(last.ret) = 1
         /\ IsNextId(Before[createOps[last.op]], Returned.id)
         /\ \A f \in DOMAIN last.input \cap {"name", "email", "cuisine", "description"} :
              Returned[f] = last.input[f]
         /\ last.op = "createOrder" =>
              Returned.status = "placed" /\ Len(Returned.items) = Len(last.input.items)
    [] last.op \in DOMAIN deleteOps ->
         last.ret = <<HasId(Before[deleteOps[last.op]], ArgId)>>
    [] last.op \in DOMAIN updateOps ->
         LET c == updateOps[last.op] IN
         IF ~HasId(Before[c], ArgId) THEN last.ret = <<>>
         ELSE LET old == Before[c][IndexOf(Before[c], ArgId)] IN
              /\ Len(last.ret) = 1
              /\ IF last.op = "updateOrderStatus"
                   THEN Returned = [old EXCEPT !.status = last.input]
                   ELSE /\ Returned.id = old.id
                        /\ \A f \in DOMAIN last.input \ {"id"} : Returned[f] = last.input[f]
                        /\ \A f \in DOMAIN old \ DOMAIN last.input : Returned[f] = old[f]
    [] OTHER -> TRUE

\* The last call was a create*, update* or delete* on a complete, readable
\* document, and its setItem threw.
WriteFailed ==
  /\ last.op \in DOMAIN createOps \cup DOMAIN updateOps \cup DOMAIN deleteOps
  /\ last.throwing = {"setItem"}
  /\ last.pre.kind = "doc"
  /\ HasAllCollections(last.pre.doc)

\* C15: a create*, update*, updateOrderStatus or delete* call on a valid
\* persisted document whose storage write throws returns what it returns
\* when the write succeeds, leaves the persisted document exactly as it was,
\* and calls setItem once only.
C15_WriteFailureIsSilent ==
  WriteFailed =>
    /\ ~last.threw
    /\ Before = last.pre.doc
    /\ ReturnsAsOnSuccess
    /\ storage = last.pre
    /\ last.writes = 1

\* C15 witness: createUser on a document of three users with setItem
\* throwing returned a user with id 4, and the document still has three.
C15_Witness ==
  /\ WriteFailed
  /\ last.op = "createUser"
  /\ Returned.id = 4
  /\ Len(storage.doc.users) = 3

---------------------------------------------------------------------------
\* Getters

\* The collection each getter reads.
getterCollection ==
  [getUsers |-> "users", getUserById |-> "users",
   getRestaurants |-> "restaurants", getRestaurantById |-> "restaurants",
   getMenus |-> "menus", getMenusByRestaurant |-> "menus", getMenuItemById |-> "menus",
   getOrders |-> "orders", getOrdersByUser |-> "orders", getOrderById |-> "orders"]

GetterOnDocument ==
  /\ last.op \in getterOps
  /\ last.pre.kind = "doc"
  /\ HasAllCollections(last.pre.doc)

\* What the getter is to return from document doc.
GetterResult(doc) ==
  IF last.op = "getAppState" THEN last.ret = <<doc>>
  ELSE LET items == doc[getterCollection[last.op]] IN
    CASE last.op \in {"getUsers", "getRestaurants", "getMenus", "getOrders"} ->
           /\ last.ret = <<items>>
           /\ StrictlyIncreasing(idsOf(Returned))
      [] last.op \in {"getUserById", "getRestaurantById", "getMenuItemById", "getOrderById"} ->
           IF HasId(items, ArgId)
             THEN last.ret = <<items[IndexOf(items, ArgId)]>>
             ELSE last.ret = <<>>
      [] last.op = "getMenusByRestaurant" ->
           last.ret = <<SelectSeq(items, LAMBDA m : RefersTo(m.restaurantId, ArgId))>>
      [] last.op = "getOrdersByUser" ->
           last.ret = <<SelectSeq(items, LAMBDA o : RefersTo(o.userId, ArgId))>>

\* C16: a getter called on a valid persisted document returns its result
\* (all records, one record or none, the matching records, the whole
\* document) from that document, leaves the document as it was and calls
\* setItem not once; the full-collection getters return every record, older
\* before newer.
C16_GettersOnlyRead ==
  GetterOnDocument =>
    /\ storage = last.pre
    /\ last.writes = 0
    /\ GetterResult(last.pre.doc)

\* C16 witness: getMenusByRestaurant('2') on a document of five menu items
\* returned the three of restaurant 2, the added one last.
C16_Witness ==
  /\ GetterOnDocument
  /\ last.op = "getMenusByRestaurant"
  /\ last.id = Str(2)
  /\ Len(last.pre.doc.menus) = 5
  /\ Len(Returned) = 3
  /\ Returned[3].id = 5

---------------------------------------------------------------------------
\* create*

Created == HasDoc /\ last.op \in DOMAIN createOps

\* A record of collection c as JSON writes it (a NaN is written as null).
AsWritten(c, record) ==
  CASE c = "users" -> record
    [] c = "restaurants" -> JsonRestaurant(record)
    [] c = "menus" -> JsonMenu(record)
    [] c = "orders" -> JsonOrder(record)

---------------------------------------------------------------------------
\* delete*

Deleted == HasDoc /\ last.op \in DOMAIN deleteOps

\* C18: delete<Entity>(id) returns true exactly when a record with that id
\* was in the collection; afterwards none has that id and the others are all
\* there, unchanged and in the order they had; with no such record it
\* returns false and the collection is as it was; in no case does it throw.
C18_DeleteRemovesOne ==
  Deleted =>
    LET c == deleteOps[last.op]
    IN /\ ~last.threw
       /\ last.ret = <<HasId(Before[c], ArgId)>>
       /\ ~HasId(Doc[c], ArgId)
       /\ Doc[c] = SelectSeq(Before[c], LAMBDA r : r.id # ArgId)
       /\ ~HasId(Before[c], ArgId) => Doc[c] = Before[c]

\* C18 witness: deleteUser(1) on users 1, 2, 3 returned true and left 2, 3.
C18_Witness ==
  /\ Deleted
  /\ last.op = "deleteUser"
  /\ idsOf(Before.users) = <<1, 2, 3>>
  /\ last.ret = <<TRUE>>
  /\ idsOf(Doc.users) = <<2, 3>>

\* The numeric fields each create* call fills from its argument.
numericFields ==
  [createUser |-> {}, createRestaurant |-> {"rating"},
   createMenuItem |-> {"restaurantId", "price"},
   createOrder |-> {"userId", "restaurantId"}]

\* The numeric parse of a supplied value, 0 when it does not parse.
ParsedOrZero(v) == IF IsNum(ToNumber(v)) THEN ToNumber(v) ELSE Num(0)

\* C19: every numeric field of a record made by create* (rating; price and
\* restaurantId; userId, restaurantId and each item's menuItemId) is the
\* numeric parse of the supplied value, 0 when that does not parse, in the
\* record returned and in the record persisted; NaN is never stored.
C19_NumericFieldsParsed ==
  Created =>
    LET c == createOps[last.op]
        new == Doc[c][Len(Doc[c])]
    IN /\ \A f \in numericFields[last.op] :
            /\ Returned[f] = ParsedOrZero(last.input[f])
            /\ new[f] = ParsedOrZero(last.input[f])
       /\ last.op = "createOrder" =>
            \A k \in DOMAIN last.input.items :
              /\ Returned.items[k].menuItemId = ParsedOrZero(last.input.items[k].menuItemId)
              /\ new.items[k].menuItemId = ParsedOrZero(last.input.items[k].menuItemId)

\* Since the document was last seeded nothing was deleted from collection c:
\* every id handed out is still there.
NoDeletions(c) == Len(Doc[c]) = Len(issued[c])

\* The ids the create* calls on collection c returned since the last seeding.
CreatedIds(c) == SubSeq(issued[c], Len(seedIssued[c]) + 1, Len(issued[c]))

\* C20 as claimed: N create* calls on a collection with no deletions return
\* the ids 1..N.
C20_IdsFromOne ==
  HasDoc =>
    \A c \in Collections :
      NoDeletions(c) => \A i \in DOMAIN CreatedIds(c) : CreatedIds(c)[i] = i

\* C20: N create* calls on a collection with no deletions return N distinct
\* ids that go on from the seed's: with S seed records they are S+1 .. S+N,
\* the collection then holding the ids 1 .. S+N.
C20_IdsContinueSeed ==
  HasDoc =>
    \A c \in Collections :
      NoDeletions(c) =>
        /\ \A i \in DOMAIN CreatedIds(c) : CreatedIds(c)[i] = Len(seedIssued[c]) + i
        /\ \A i, j \in DOMAIN CreatedIds(c) : CreatedIds(c)[i] = CreatedIds(c)[j] => i = j
        /\ idsOf(Doc[c]) = [i \in 1..Len(issued[c]) |-> i]

\* C20 witness: three createUser calls on the seeded users returned 3, 4, 5.
C20_Witness ==
  /\ HasDoc
  /\ NoDeletions("users")
  /\ CreatedIds("users") = <<3, 4, 5>>

---------------------------------------------------------------------------
\* Reading back what was written

\* The calls that store a document of their own making.
mutatingOps ==
  {"resetToSeed"} \cup DOMAIN createOps \cup DOMAIN updateOps \cup DOMAIN deleteOps

\* A getAppState() call made right after a mutating call.
ReadsBackAfterMutation ==
  /\ last.op \in mutatingOps
  /\ ~last.threw
  /\ HasDoc
  /\ steps' = steps + 1
  /\ last'.op = "getAppState"

---------------------------------------------------------------------------
\* Shape of the persisted document

\* C22: once a call of the store has completed, the persisted document has
\* the four collections users, restaurants, menus and orders; none of
\* resetToSeed, create*, update*, updateOrderStatus, delete* (nor a getter)
\* leaves a document without one of them.
C22_FourCollections ==
  last.op # "none" =>
    /\ storage.kind = "doc"
    /\ DOMAIN storage.doc = Collections

\* C22 witness: createUser found a document holding users only and left one
\* with all four collections.
C22_Witness ==
  /\ last.op = "createUser"
  /\ last.pre = Partial
  /\ storage.kind = "doc"
  /\ DOMAIN storage.doc = Collections
  /\ Len(storage.doc.users) = 3

---------------------------------------------------------------------------
\* Unit prices

\* C23: every line item of every order of the persisted document has a unit
\* price that is a number and at least 0, whatever unit prices createOrder
\* was given and whatever prices the menu items were given.
C23_UnitPricesNonNegative ==
  HasDoc =>
    \A i \in DOMAIN Doc.orders :
      \A k \in DOMAIN Doc.orders[i].items :
        /\ IsNum(Doc.orders[i].items[k].unitPrice)
        /\ Doc.orders[i].items[k].unitPrice.n >= 0

---------------------------------------------------------------------------
\* Two tabs

\* Tabs a and b have both completed a setState call, both loaded before
\* either stored, and b stored last.
StoredOverTheOther(a, b) ==
  /\ a # b
  /\ tabs[a].pc = "done"
  /\ tabs[b].pc = "done"
  /\ tabs[a].loadedAt < tabs[b].storedAt
  /\ tabs[b].loadedAt < tabs[a].storedAt
  /\ tabs[a].storedAt < tabs[b].storedAt

\* C24: when two tabs run a mutating call each and both load the document
\* before either stores, the persisted document in the end is exactly the one
\* the later writer stored: that writer's mutation applied to the document
\* both loaded.  The earlier writer's mutation is not in it: every collection
\* the later writer did not change is as it was loaded.  Nothing is detected,
\* rejected or merged.
C24_LastWriterWins ==
  \A a, b \in Tabs :
    StoredOverTheOther(a, b) =>
      /\ storage = Stored(JsonDoc(tabs[b].newState))
      /\ tabs[b].newState = applyMutator(tabs[b].m, tabs[a].loaded, tabs[b].loadedAt)
      /\ \A c \in Collections :
           tabs[b].newState[c] = tabs[b].loaded[c] => storage.doc[c] = tabs[a].loaded[c]

\* C24 witness: one tab created a user, the other then stored its new
\* restaurant over it; the document has three restaurants and the two seed
\* users only.
C24_Witness ==
  \E a, b \in Tabs :
    /\ StoredOverTheOther(a, b)
    /\ tabs[a].m.op = "createUser"
    /\ Len(tabs[a].newState.users) = 3
    /\ tabs[b].m.op = "createRestaurant"
    /\ Len(storage.doc.restaurants) = 3
    /\ Len(storage.doc.users) = 2

---------------------------------------------------------------------------
\* deleteRestaurant with an id no restaurant has

\* C25: deleteRestaurant(id) with an id that matches no restaurant returns
\* false and leaves all four collections as they were, also when menu items
\* or orders carry that restaurantId.
C25_MissingRestaurantUnchanged ==
  (/\ HasDoc
   /\ last.op = "deleteRestaurant"
   /\ ~HasId(Before.restaurants, ArgId)) =>
    /\ last.ret = <<FALSE>>
    /\ Doc = Before

---------------------------------------------------------------------------
\* References

\* C26: every menu item of the persisted document has the id of a restaurant
\* of that document as its restaurantId.
C26_NoDanglingMenuItems ==
  HasDoc =>
    \A m \in DOMAIN Doc.menus :
      \E r \in DOMAIN Doc.restaurants :
        Doc.menus[m].restaurantId = Num(Doc.restaurants[r].id)

\* C27: deleteUser(id) and deleteMenuItem(id) change their own collection
\* only, so no order goes and none changes, whether or not it refers to the
\* deleted record; whatever the call, other than deleteOrder and
\* resetToSeed, every order it found is still in the document.
C27_OrdersOutliveReferences ==
  HasDoc =>
    /\ last.op \in {"deleteUser", "deleteMenuItem"} =>
         \A d \in Collections \ {deleteOps[last.op]} : Doc[d] = Before[d]
    /\ last.op \notin {"none", "deleteOrder", "resetToSeed"} =>
         \A i \in DOMAIN Before.orders : HasId(Doc.orders, Before.orders[i].id)

\* C27 witness: deleteUser(1) removed user 1, and the seed order of user 1,
\* with its line on menu item 1, is still there as it was.
C27_Witness ==
  /\ HasDoc
  /\ last.op = "deleteUser"
  /\ last.ret = <<TRUE>>
  /\ ArgId = 1
  /\ ~HasId(Doc.users, 1)
  /\ Len(Doc.orders) >= 1
  /\ Doc.orders[1].userId = Num(1)
  /\ Doc.orders[1] = Before.orders[1]

---------------------------------------------------------------------------
\* The hash-routed RestaurantList

\* if (selectedId != null) the component renders RestaurantDetail for
\* selectedId, and the list of cards otherwise.
showsDetail == view.selectedId # Null

\* C28: once the component is mounted and every event has been processed
\* (no hashchange waits), the detail view is shown exactly when the hash
\* matches #/restaurant/<id>, and then for that id; when the hash does not
\* match, the list is shown.
C28_DetailIffHashMatches ==
  (view.mounted /\ ~view.pending) =>
    IF matchHash(view.hash) # <<>>
      THEN showsDetail /\ view.selectedId = ToNumber(matchHash(view.hash)[1])
      ELSE ~showsDetail

\* C29: a mount of RestaurantList that finds a valid document leaves it
\* persisted as it was (here even with the createdAt of orders left out of
\* the comparison), and writes nothing.
C29_MountKeepsDocument ==
  (/\ last.op = "mountRestaurantList"
   /\ ~last.threw
   /\ ValidStorage(last.pre)) =>
    /\ ValidStorage(storage)
    /\ WithoutCreatedAt(storage.doc) = WithoutCreatedAt(last.pre.doc)

====
